---- MODULE Spec2Model ----
\* Model of bot.py: the deterministic match engine (compute_match and its
\* helpers), the reroll session store kept in app.bot_data, the process-wide
\* SEED_SECRET, and the handlers that read and write them.
\*
\* Text is a sequence of character codes (ASCII), so that strip, lower,
\* whitespace collapsing, slicing, comparison and substring search are computed
\* as Python computes them.
EXTENDS Integers, Sequences, FiniteSets, TLC

\* ---------------------------------------------------------------- bounds
\* Updates (commands and button presses) dispatched in one run.
MaxUpdates == 3
\* Distinct values secrets.token_urlsafe can return in the model.
MaxTokens == 2
\* Handlers that may be suspended at an await at the same time.
MaxTasks == 2
\* Largest number of distinct letters in a name given to the score engine.
MaxDistinct == 15
\* Generator seeds tried by the content-selection specification: 0..MaxSeed.
MaxSeed == 11

\* Python's None where a text, a pair or a token is expected; an optional record
\* (a user, a result) is a sequence of at most one element.
None == <<>>

\* ------------------------------------------------------------ text helpers
\* str.isspace / regex \s on the ASCII range.
IsSpace(c) == c \in {9, 10, 11, 12, 13, 28, 29, 30, 31, 32}

\* regex \w on the ASCII range: [A-Za-z0-9_].
IsWord(c) == (c >= 48 /\ c <= 57) \/ (c >= 65 /\ c <= 90) \/ (c >= 97 /\ c <= 122) \/ c = 95

\* str.lower() of one character (ASCII).
LowerChar(c) == IF c >= 65 /\ c <= 90 THEN c + 32 ELSE c

lower(s) == [i \in 1..Len(s) |-> LowerChar(s[i])]

RECURSIVE lstrip(_)
lstrip(s) == IF s = <<>> THEN s ELSE IF IsSpace(Head(s)) THEN lstrip(Tail(s)) ELSE s

RECURSIVE rstrip(_)
rstrip(s) == IF s = <<>> THEN s
             ELSE IF IsSpace(s[Len(s)]) THEN rstrip(SubSeq(s, 1, Len(s) - 1)) ELSE s

\* str.strip()
strip(s) == rstrip(lstrip(s))

\* re.sub(r"\s+", " ", s): every run of whitespace becomes one space.
RECURSIVE collapse_ws(_)
collapse_ws(s) == IF s = <<>> THEN s
                  ELSE IF IsSpace(Head(s)) THEN <<32>> \o collapse_ws(lstrip(s))
                  ELSE <<Head(s)>> \o collapse_ws(Tail(s))

\* s[:n]
Prefix(s, n) == SubSeq(s, 1, IF Len(s) < n THEN Len(s) ELSE n)

\* Python's <= on str: lexicographic by code point, a proper prefix is smaller.
RECURSIVE StrLE(_, _)
StrLE(a, b) == IF a = <<>> THEN TRUE
               ELSE IF b = <<>> THEN FALSE
               ELSE IF Head(a) < Head(b) THEN TRUE
               ELSE IF Head(a) > Head(b) THEN FALSE
               ELSE StrLE(Tail(a), Tail(b))

\* str(int(n)) for n >= 0: the decimal digits.
RECURSIVE str(_)
str(n) == IF n < 10 THEN <<48 + n>> ELSE str(n \div 10) \o <<48 + (n % 10)>>

\* "|".join(parts)
RECURSIVE join_bar(_)
join_bar(parts) == IF parts = <<>> THEN <<>>
                   ELSE IF Len(parts) = 1 THEN parts[1]
                   ELSE parts[1] \o <<124>> \o join_bar(Tail(parts))

\* ------------------------------------------------------------------- UTIL
_clean(s) == Prefix(collapse_ws(strip(s)), 64)

\* _pair_key returning (a, b) in argument order
_pair_key_unsorted(a, b) == <<lower(strip(a)), lower(strip(b))>>

_pair_key(a, b) ==
    LET a2 == lower(strip(a))
        b2 == lower(strip(b))
    IN  IF StrLE(a2, b2) THEN <<a2, b2>> ELSE <<b2, a2>>

\* hashlib.sha256(raw).hexdigest()[:16] read as an integer. The digest is
\* library code; it is modelled by a polynomial hash of the same byte string,
\* which like the digest is a fixed function of every byte of raw in order.
RECURSIVE digest(_, _)
digest(raw, acc) == IF raw = <<>> THEN acc
                    ELSE digest(Tail(raw), (acc * 131 + Head(raw)) % 1000003)

_stable_int(secret, parts) ==
    LET raw == join_bar([i \in 1..Len(parts) |-> lower(strip(parts[i]))]) \o <<124>> \o secret
    IN  digest(raw, 7)

\* _clamp as max(lo, n)
_clamp_no_hi(n, lo, hi) == IF n < lo THEN lo ELSE n

_clamp(n, lo, hi) ==
    LET m == IF hi < n THEN hi ELSE n
    IN  IF lo > m THEN lo ELSE m

\* ------------------------------------------------------- random.Random
\* A generator is the stream of its raw outputs and a read position. Each
\* library call consumes one raw output and maps it into the call's range.
TapeLen == 5 + 6 + 5 + 5

\* random.Random(seed): the stream is a fixed function of the seed.
Random(seed) ==
    [tape |-> [i \in 1..TapeLen |-> (((seed + 7919 * i) % 1000003) * 1103 + 12345) % 1000003],
     pos  |-> 1]

raw_of(rng) == rng.tape[rng.pos]

advance(rng) == [rng EXCEPT !.pos = @ + 1]

\* rng.randint(lo, hi): an integer in lo..hi
randint(rng, lo, hi) == [val |-> lo + (raw_of(rng) % (hi - lo + 1)), rng |-> advance(rng)]

\* rng.random() in hundredths: a value in 0..99 standing for [0, 1)
random(rng) == [val |-> raw_of(rng) % 100, rng |-> advance(rng)]

swap(x, i, j) == [x EXCEPT ![i] = x[j], ![j] = x[i]]

\* rng.shuffle(x): for i in reversed(range(1, len(x))): j = randbelow(i + 1);
\* x[i], x[j] = x[j], x[i]   (indices here are 1-based: i runs Len(x)..2)
RECURSIVE shuffle_from(_, _, _)
shuffle_from(rng, x, i) ==
    IF i < 2 THEN [val |-> x, rng |-> rng]
    ELSE LET j == 1 + (raw_of(rng) % i)
         IN  shuffle_from(advance(rng), swap(x, i, j), i - 1)

shuffle(rng, x) == shuffle_from(rng, x, Len(x))

\* _pick as k independent draws items[rng.randrange(0, len(items))]
RECURSIVE draw_with_replacement(_, _, _)
draw_with_replacement(rng, items, k) ==
    IF k = 0 THEN [val |-> <<>>, rng |-> rng]
    ELSE LET r == randint(rng, 0, Len(items) - 1)
             rest == draw_with_replacement(r.rng, items, k - 1)
         IN  [val |-> <<items[r.val + 1]>> \o rest.val, rng |-> rest.rng]

_pick_with_replacement(rng, items, k) ==
    IF items = <<>> THEN [val |-> <<>>, rng |-> rng]
    ELSE draw_with_replacement(rng, items, IF k <= 1 THEN 1 ELSE k)

_pick(rng, items, k) ==
    IF items = <<>> THEN [val |-> <<>>, rng |-> rng]
    ELSE IF k <= 1 THEN
        LET r == randint(rng, 0, Len(items) - 1)
        IN  [val |-> <<items[r.val + 1]>>, rng |-> r.rng]
    ELSE LET s == shuffle(rng, items)
         IN  [val |-> Prefix(s.val, k), rng |-> s.rng]

\* ------------------------------------------------------------ MATCH ENGINE
Range(s) == {s[i] : i \in 1..Len(s)}

\* number of vowels of s.lower()
vowels(s) == Cardinality({i \in 1..Len(s) : LowerChar(s[i]) \in {97, 105, 117, 101, 111}})

similarity_bonus(x, y) ==
    LET overlap == Cardinality(Range(lower(x)) \cap Range(lower(y)))
    IN  _clamp(overlap - 6, -3, 8)

\* vr = abs(vowel_ratio(a) - vowel_ratio(b)) with vowel_ratio(s) = v / max(1, len(s)).
\* As rationals vr = |va*lb - vb*la| / (la*lb), so vr < p/100 iff
\* 100*|va*lb - vb*la| < p*la*lb.  The code computes vr in binary floating point,
\* which agrees with the rational comparison except when the rational difference
\* is exactly a threshold: the rounded difference then lands on one side or the
\* other.  For names of at most 20 characters only the 0.05 threshold can be hit
\* exactly (0.12 needs a denominator that is a multiple of 25); rounds_below
\* lists the smaller ratio, in lowest terms, of every such pair whose double
\* difference is 0.0499999... (e.g. 0.25 - 0.2), so that the first branch is taken.
rounds_below ==
    {<<1, 10>>, <<1, 5>>, <<1, 4>>, <<3, 10>>, <<2, 5>>, <<5, 12>>, <<9, 20>>,
     <<11, 20>>, <<13, 20>>, <<4, 5>>, <<13, 15>>, <<9, 10>>}

vowel_bonus(a, b) ==
    LET la  == IF Len(a) < 1 THEN 1 ELSE Len(a)
        lb  == IF Len(b) < 1 THEN 1 ELSE Len(b)
        x   == vowels(a) * lb
        y   == vowels(b) * la
        lo  == IF x < y THEN x ELSE y
        num == 100 * (IF x < y THEN y - x ELSE x - y)
        below == /\ num = 5 * la * lb
                 /\ \E f \in rounds_below : lo * f[2] = f[1] * la * lb
    IN  IF num < 5 * la * lb \/ below THEN 5
        ELSE IF num < 12 * la * lb THEN 2
        ELSE -1

\* compute_match from `base = rng.randint(35, 92)` to `score = _clamp(...)`:
\* the score and the generator as the draws left it.
score_of(rng, a, b) ==
    LET base   == randint(rng, 35, 92)
        bonus0 == similarity_bonus(a, b) + vowel_bonus(a, b)
        p1     == random(base.rng)
        add    == IF p1.val < 12 THEN randint(p1.rng, 2, 7) ELSE [val |-> 0, rng |-> p1.rng]
        p2     == random(add.rng)
        sub    == IF p2.val < 10 THEN randint(p2.rng, 1, 5) ELSE [val |-> 0, rng |-> p2.rng]
    IN  [score |-> _clamp(base.val + bonus0 + add.val - sub.val, 1, 100), rng |-> sub.rng]

\* the chain with > in place of >=
tier_exclusive(score) ==
    IF score > 90 THEN [label |-> "Soulmate Mode", vibe |-> "Kalian kalau chat, universe ikut ngetik."]
    ELSE IF score > 75 THEN [label |-> "Green Flag Couple", vibe |-> "Nyambungnya enak, asal komunikasi jalan."]
    ELSE IF score > 60 THEN [label |-> "Potential (butuh effort)", vibe |-> "Chemistry ada, tinggal konsistenin usaha."]
    ELSE IF score > 45 THEN [label |-> "50:50", vibe |-> "Bisa jadi, bisa bubar. Jangan mager komunikasi."]
    ELSE [label |-> "Hati-hati", vibe |-> "Bukan nggak bisa, cuma rawan salah paham."]

\* the if/elif chain on score: label and vibe
tier(score) ==
    IF score >= 90 THEN [label |-> "Soulmate Mode", vibe |-> "Kalian kalau chat, universe ikut ngetik."]
    ELSE IF score >= 75 THEN [label |-> "Green Flag Couple", vibe |-> "Nyambungnya enak, asal komunikasi jalan."]
    ELSE IF score >= 60 THEN [label |-> "Potential (butuh effort)", vibe |-> "Chemistry ada, tinggal konsistenin usaha."]
    ELSE IF score >= 45 THEN [label |-> "50:50", vibe |-> "Bisa jadi, bisa bubar. Jangan mager komunikasi."]
    ELSE [label |-> "Hati-hati", vibe |-> "Bukan nggak bisa, cuma rawan salah paham."]

\* The pools (the two dashes of reason_pool are written "-").
reason_pool ==
    << "cara mikir kalian komplementer, bukan tabrakan",
       "satu spontan, satu rapi-kalau saling ngerti jadi kuat",
       "chemistry ada, tinggal konsistenin effort",
       "ritme komunikasi cocok: nggak kebanyakan, nggak kelamaan ngilang",
       "humor kalian sefrekuensi (asal roastingnya nggak keterlaluan)",
       "perlu clear soal batasan biar aman",
       "kalau ngambek, jangan silent treatment-ini titik rawan" >>

green_pool ==
    << "supportive", "cepat baikan", "nyaman jadi diri sendiri", "bisa teamwork",
       "careful tapi tulus", "bikin tenang" >>

red_pool ==
    << "overthinking", "gengsi minta maaf", "suka asumsi", "baper pas capek",
       "komunikasi putus-nyambung", "mendadak ngilang" >>

\* compute_match from the tier chain to the returned MatchResult, for the score
\* and the generator the score stage left.
result_of(rng, score) ==
    LET t       == tier(score)
        reasons == _pick(rng, reason_pool, IF score >= 70 THEN 3 ELSE 2)
        greens  == _pick(reasons.rng, green_pool, IF score >= 75 THEN 3 ELSE 2)
        reds    == _pick(greens.rng, red_pool, IF score >= 60 THEN 2 ELSE 3)
    IN  [score |-> score, label |-> t.label, vibe |-> t.vibe,
         reasons |-> reasons.val, greens |-> greens.val, reds |-> reds.val]

\* compute_match once the pair key is known and the generator is seeded
match_of(rng, a, b) ==
    LET s == score_of(rng, a, b)
    IN  result_of(s.rng, s.score)

compute_match(secret, name1, name2, nonce) ==
    LET n1   == _clean(name1)
        n2   == _clean(name2)
        key  == _pair_key(n1, n2)
        seed == _stable_int(secret, <<key[1], key[2], str(nonce)>>)
    IN  match_of(Random(seed), key[1], key[2])

\* " ".join(args)
RECURSIVE join_sp(_)
join_sp(parts) == IF parts = <<>> THEN <<>>
                  ELSE IF Len(parts) = 1 THEN parts[1]
                  ELSE parts[1] \o <<32>> \o join_sp(Tail(parts))

\* s.replace("\n", " ")
replace_nl(s) == [i \in 1..Len(s) |-> IF s[i] = 10 THEN 32 ELSE s[i]]

\* number of leading characters of s that satisfy \w
RECURSIVE word_run(_)
word_run(s) == IF s = <<>> THEN 0 ELSE IF IsWord(Head(s)) THEN 1 + word_run(Tail(s)) ELSE 0

\* s[n:]
Drop(s, n) == SubSeq(s, n + 1, Len(s))

\* first index at which sep occurs in t, 0 when `sep in t` is false
find(t, sep) ==
    LET hits == {i \in 1..(Len(t) - Len(sep) + 1) : SubSeq(t, i, i + Len(sep) - 1) = sep}
    IN  IF hits = {} THEN 0 ELSE CHOOSE i \in hits : \A j \in hits : i <= j

\* MENTION_RE.findall(t) for MENTION_RE = @([A-Za-z0-9_]{4,32}): the groups of
\* the non-overlapping matches, left to right.
RECURSIVE mentions(_)
mentions(t) ==
    IF t = <<>> THEN <<>>
    ELSE IF Head(t) # 64 THEN mentions(Tail(t))
    ELSE LET n == word_run(Tail(t))
             k == IF n > 32 THEN 32 ELSE n
         IN  IF n < 4 THEN mentions(Tail(t))
             ELSE <<SubSeq(t, 2, k + 1)>> \o mentions(Drop(t, k + 1))

\* re.sub(r"^/\w+(@\w+)?\s*", "", t)
strip_command(t) ==
    IF t = <<>> \/ Head(t) # 47 \/ word_run(Tail(t)) = 0 THEN t
    ELSE LET r1 == Drop(t, 1 + word_run(Tail(t)))
             r2 == IF r1 # <<>> /\ Head(r1) = 64 /\ word_run(Tail(r1)) > 0
                   THEN Drop(r1, 1 + word_run(Tail(r1))) ELSE r1
         IN  lstrip(r2)

\* u.full_name or u.first_name or "Seseorang", stripped, newlines replaced, [:64]
_display_name(u) ==
    LET name == IF u.full_name # <<>> THEN u.full_name
                ELSE IF u.first_name # <<>> THEN u.first_name
                ELSE <<83, 101, 115, 101, 111, 114, 97, 110, 103>>
    IN  Prefix(replace_nl(strip(name)), 64)

\* seps = [" x ", " X ", " vs ", " VS ", " & ", " dan ", " + "]
seps ==
    << <<32, 120, 32>>, <<32, 88, 32>>, <<32, 118, 115, 32>>, <<32, 86, 83, 32>>,
       <<32, 38, 32>>, <<32, 100, 97, 110, 32>>, <<32, 43, 32>> >>

\* the `for sep in seps` loop from index i on: the first separator that occurs
\* in t and leaves two non-empty cleaned sides, or None
RECURSIVE split_names(_, _)
split_names(t, i) ==
    IF i > Len(seps) THEN None
    ELSE LET at == find(t, seps[i])
             left  == _clean(SubSeq(t, 1, at - 1))
             right == _clean(Drop(t, at + Len(seps[i]) - 1))
         IN  IF at > 0 /\ left # <<>> /\ right # <<>> THEN <<left, right>>
             ELSE split_names(t, i + 1)

_extract_two_names(text) ==
    IF text = <<>> THEN None
    ELSE LET t  == strip(strip_command(strip(text)))
             sp == split_names(t, 1)
             m  == mentions(t)
         IN  IF sp # None THEN sp
             ELSE IF Len(m) >= 2 THEN <<m[1], m[2]>>
             ELSE None

\* reply_to_message.from_user, else the first text_mention entity's user, else None
_resolve_target_user(reply_user, entity_user) ==
    IF reply_user # None THEN reply_user
    ELSE IF entity_user # None THEN entity_user
    ELSE None

\* re.match(r"^reroll:(.+)$", data).group(1), or None when there is no match:
\* "." matches no newline and "$" also matches just before one trailing newline.
reroll_token(data) ==
    LET pre  == <<114, 101, 114, 111, 108, 108, 58>>
        rest == Drop(data, Len(pre))
        body == IF rest # <<>> /\ rest[Len(rest)] = 10 THEN SubSeq(rest, 1, Len(rest) - 1) ELSE rest
    IN  IF Len(data) < Len(pre) \/ SubSeq(data, 1, Len(pre)) # pre THEN None
        ELSE IF body = <<>> \/ 10 \in Range(body) THEN None
        ELSE body

\* ------------------------------------------------------------------ inputs
\* "match-secret", the default of os.getenv("SEED_SECRET", ...)
DefaultSecret == <<109, 97, 116, 99, 104, 45, 115, 101, 99, 114, 101, 116>>

\* context.args of /setsecret: none, "kunci", "k 2"
SecretArgs == { <<>>, << <<107, 117, 110, 99, 105>> >>, << <<107>>, <<50>> >> }

\* telegram users: "Ab", and "b\na " whose display name is "b a"
UserA == [full_name |-> <<65, 98>>, first_name |-> <<65, 98>>]
UserB == [full_name |-> <<98, 10, 97, 32>>, first_name |-> <<98, 10, 97, 32>>]

\* "/match" and "/match @abcd"
MatchTexts == { <<47, 109, 97, 116, 99, 104>>,
                <<47, 109, 97, 116, 99, 104, 32, 64, 97, 98, 99, 100>> }

\* "/ship Ab x b a", "/compat b a & Ab", "/ship @abcd hi @Abcd", "/ship Ab"
ShipTexts == { <<47, 115, 104, 105, 112, 32, 65, 98, 32, 120, 32, 98, 32, 97>>,
               <<47, 99, 111, 109, 112, 97, 116, 32, 98, 32, 97, 32, 38, 32, 65, 98>>,
               <<47, 115, 104, 105, 112, 32, 64, 97, 98, 99, 100, 32, 104, 105, 32, 64, 65, 98, 99, 100>>,
               <<47, 115, 104, 105, 112, 32, 65, 98>> }

\* the values secrets.token_urlsafe(8) returns here: "t1", "t2", ... The call
\* draws 8 random bytes, so it may return a value it returned before; nothing
\* in match_cmd or ship_cmd looks the new token up before storing under it.
Tokens == {<<116, 48 + k>> : k \in 1..MaxTokens}

\* callback data: "reroll:" + token for every token, and for "t1" also with the
\* made-up suffixes "x" and "\n"; "reroll:" alone; and no data (None or "")
RerollPrefix == <<114, 101, 114, 111, 108, 108, 58>>
CallbackData ==
    {RerollPrefix \o t : t \in Tokens}
    \cup {RerollPrefix \o <<116, 49, 120>>, RerollPrefix \o <<116, 49, 10>>, RerollPrefix, None}

\* ------------------------------------------------------------------- state
\* A handler runs without interruption from one await to the next. match_cmd,
\* ship_cmd and setsecret_cmd reach their only suspending await as their last
\* statement (the reply), and nothing runs when it returns, so each is one
\* step. (`await _resolve_target_user(update)` awaits a coroutine that never
\* suspends.) reroll_cb suspends at `await q.answer()` before it touches the
\* sessions, so it is two steps, and other handlers may run between them.
\* (An Application that handles one update at a time runs the two steps back
\* to back; those runs are among the ones below.)
VARIABLES
    SEED_SECRET,   \* the module-level secret
    sessions,      \* app.bot_data["reroll_sessions"]: token -> name1, name2, nonce
    pending,       \* reroll_cb calls suspended at `await q.answer()`: slot -> q.data
    rendered,      \* the results sent so far, in order, each with the call that made it
    sent,          \* kind of the last message handed to the transport
    nupdates,      \* updates dispatched so far
    arg,           \* input of a direct call of the engine (engine specifications)
    ret            \* its result

vars == <<SEED_SECRET, sessions, pending, rendered, sent, nupdates, arg, ret>>

Slots == 1..MaxTasks

BotInit ==
    /\ SEED_SECRET = DefaultSecret
    /\ sessions = <<>>
    /\ pending = [i \in Slots |-> None]
    /\ rendered = <<>>
    /\ sent = ""
    /\ nupdates = 0

Init == BotInit /\ arg = None /\ ret = None

Entry(op, token, name1, name2, secret, nonce, r) ==
    [op |-> op, token |-> token, name1 |-> name1, name2 |-> name2,
     secret |-> secret, nonce |-> nonce, r |-> r]

\* sessions[token] = {"name1": name1, "name2": name2, "nonce": 0}
put_session(token, name1, name2) ==
    [t \in DOMAIN sessions \cup {token} |->
        IF t = token THEN [name1 |-> name1, name2 |-> name2, nonce |-> 0] ELSE sessions[t]]

\* ---------------------------------------------------------------- handlers
\* start_cmd, help_cmd, cmds_cmd, ping_cmd, about_cmd: a fixed reply
info_cmd ==
    /\ nupdates < MaxUpdates
    /\ nupdates' = nupdates + 1
    /\ sent' = "info"
    /\ UNCHANGED <<SEED_SECRET, sessions, pending, rendered, arg, ret>>

\* text_hint: in a group, on a text with one of the key words, a hint is sent
\* when random.random() < 0.05 (lucky)
text_hint(in_group, has_keyword, lucky) ==
    /\ nupdates < MaxUpdates
    /\ nupdates' = nupdates + 1
    /\ IF in_group /\ has_keyword /\ lucky THEN sent' = "hint" ELSE UNCHANGED sent
    /\ UNCHANGED <<SEED_SECRET, sessions, pending, rendered, arg, ret>>

setsecret_cmd(args) ==
    /\ nupdates < MaxUpdates
    /\ nupdates' = nupdates + 1
    /\ LET a == strip(join_sp(args))
       IN  IF a = <<>>
           THEN sent' = "usage" /\ UNCHANGED SEED_SECRET
           ELSE SEED_SECRET' = _clean(a) /\ sent' = "ok"
    /\ UNCHANGED <<sessions, pending, rendered, arg, ret>>

\* match_cmd / ship_cmd from `sessions[token] = ...` to the reply
create_and_score(op, token, name1, name2) ==
    /\ sessions' = put_session(token, name1, name2)
    /\ rendered' = Append(rendered,
                          Entry(op, token, name1, name2, SEED_SECRET, 0,
                                compute_match(SEED_SECRET, name1, name2, 0)))
    /\ sent' = "result"

\* token is the value secrets.token_urlsafe(8) returns
match_cmd(me, reply_user, entity_user, text, token) ==
    /\ nupdates < MaxUpdates
    /\ nupdates' = nupdates + 1
    /\ LET target == _resolve_target_user(reply_user, entity_user)
           m      == mentions(text)
           typed_username == IF m # <<>> THEN m[1] ELSE None
       IN  IF me = None
           THEN UNCHANGED <<sessions, rendered, sent>>
           ELSE IF target = None /\ typed_username = None
           THEN sent' = "usage" /\ UNCHANGED <<sessions, rendered>>
           ELSE create_and_score("match", token, _display_name(me[1]),
                                 IF target # None THEN _display_name(target[1])
                                 ELSE <<64>> \o typed_username)
    /\ UNCHANGED <<SEED_SECRET, pending, arg, ret>>

\* ship_cmd, and compat_cmd which calls it
ship_cmd(text, token) ==
    /\ nupdates < MaxUpdates
    /\ nupdates' = nupdates + 1
    /\ LET pair == _extract_two_names(text)
       IN  IF pair = None
           THEN sent' = "usage" /\ UNCHANGED <<sessions, rendered>>
           ELSE create_and_score("ship", token, pair[1], pair[2])
    /\ UNCHANGED <<SEED_SECRET, pending, arg, ret>>

\* the slot a newly suspended reroll_cb is kept in
FreeSlot == CHOOSE i \in Slots : pending[i] = None /\ \A j \in Slots : pending[j] = None => i <= j

\* reroll_cb up to `await q.answer()`
reroll_cb_start(data) ==
    /\ nupdates < MaxUpdates
    /\ \E i \in Slots : pending[i] = None
    /\ nupdates' = nupdates + 1
    /\ IF data = None
       THEN UNCHANGED pending
       ELSE pending' = [pending EXCEPT ![FreeSlot] = data]
    /\ UNCHANGED <<SEED_SECRET, sessions, rendered, sent, arg, ret>>

\* reroll_cb scoring with the nonce it read, not the one it stored
reroll_cb_resume_stale_nonce(i) ==
    /\ pending[i] # None
    /\ pending' = [pending EXCEPT ![i] = None]
    /\ LET token == reroll_token(pending[i])
       IN  IF token = None
           THEN UNCHANGED <<sessions, rendered, sent>>
           ELSE IF token \notin DOMAIN sessions
           THEN sent' = "expired" /\ UNCHANGED <<sessions, rendered>>
           ELSE LET sess == sessions[token]
                IN  /\ sessions' = [sessions EXCEPT ![token].nonce = sess.nonce + 1]
                    /\ rendered' = Append(rendered,
                                          Entry("reroll", token, sess.name1, sess.name2, SEED_SECRET, sess.nonce,
                                                compute_match(SEED_SECRET, sess.name1, sess.name2, sess.nonce)))
                    /\ sent' = "result"
    /\ UNCHANGED <<SEED_SECRET, nupdates, arg, ret>>

\* reroll_cb with sessions.setdefault(token, {...}) in place of sessions.get(token)
reroll_cb_resume_setdefault(i) ==
    /\ pending[i] # None
    /\ pending' = [pending EXCEPT ![i] = None]
    /\ LET token == reroll_token(pending[i])
       IN  IF token = None
           THEN UNCHANGED <<sessions, rendered, sent>>
           ELSE LET sess  == IF token \in DOMAIN sessions THEN sessions[token]
                             ELSE [name1 |-> <<>>, name2 |-> <<>>, nonce |-> 0]
                    nonce == sess.nonce + 1
                IN  /\ sessions' = [t \in DOMAIN sessions \cup {token} |->
                                       IF t = token THEN [sess EXCEPT !.nonce = nonce] ELSE sessions[t]]
                    /\ rendered' = Append(rendered,
                                          Entry("reroll", token, sess.name1, sess.name2, SEED_SECRET, nonce,
                                                compute_match(SEED_SECRET, sess.name1, sess.name2, nonce)))
                    /\ sent' = "result"
    /\ UNCHANGED <<SEED_SECRET, nupdates, arg, ret>>

\* reroll_cb from the return of q.answer() to the end: no await separates the
\* lookup, the increment and compute_match
reroll_cb_resume(i) ==
    /\ pending[i] # None
    /\ pending' = [pending EXCEPT ![i] = None]
    /\ LET token == reroll_token(pending[i])
       IN  IF token = None
           THEN UNCHANGED <<sessions, rendered, sent>>
           ELSE IF token \notin DOMAIN sessions
           THEN sent' = "expired" /\ UNCHANGED <<sessions, rendered>>
           ELSE LET sess  == sessions[token]
                    nonce == sess.nonce + 1
                IN  /\ sessions' = [sessions EXCEPT ![token].nonce = nonce]
                    /\ rendered' = Append(rendered,
                                          Entry("reroll", token, sess.name1, sess.name2, SEED_SECRET, nonce,
                                                compute_match(SEED_SECRET, sess.name1, sess.name2, nonce)))
                    /\ sent' = "result"
    /\ UNCHANGED <<SEED_SECRET, nupdates, arg, ret>>

Next ==
    \/ info_cmd
    \/ \E in_group, has_keyword, lucky \in BOOLEAN : text_hint(in_group, has_keyword, lucky)
    \/ \E args \in SecretArgs : setsecret_cmd(args)
    \/ \E me \in {<<UserA>>, None}, ru \in {<<UserB>>, None}, eu \in {<<UserA>>, None},
          text \in MatchTexts, token \in Tokens : match_cmd(me, ru, eu, text, token)
    \/ \E text \in ShipTexts, token \in Tokens : ship_cmd(text, token)
    \/ \E data \in CallbackData : reroll_cb_start(data)
    \/ \E i \in Slots : reroll_cb_resume(i)

Spec == Init /\ [][Next]_vars

\* ------------------------------------------------- engine specifications
\* Direct calls of the engine on enumerated inputs. The handlers do not run.

\* the first k letters of the alphabet, the first one in upper case: "A", "Ab", "Abc", ...
Letters(k) == [i \in 1..k |-> IF i = 1 THEN 65 ELSE 96 + i]

\* Generator streams that make every outcome of the score draws happen:
\* raw b gives base 35 + b; raw 11 is a hit of `random() < 0.12` and raw 12 a
\* miss; raw 9 is a hit of `random() < 0.10` and raw 10 a miss; after a hit the
\* next raw output is the extra draw. The rest of the stream is Random(b)'s.
DrawPrefixes ==
    {<<b>> \o p1 \o p2 : b \in 0..57,
                         p1 \in {<<12>>} \cup {<<11, x>> : x \in 0..5},
                         p2 \in {<<10>>} \cup {<<9, y>> : y \in 0..4}}

DrawTapes == {d \o SubSeq(Random(d[1]).tape, 1, TapeLen - Len(d)) : d \in DrawPrefixes}

ScoreArgs == {[name1 |-> Letters(k), name2 |-> Letters(MaxDistinct), tape |-> t] :
                 k \in 1..MaxDistinct, t \in DrawTapes}

\* compute_match on arg's names with arg's stream as the seeded generator
call_match_of ==
    /\ ret = None
    /\ LET key == _pair_key(_clean(arg[1].name1), _clean(arg[1].name2))
       IN  ret' = <<match_of([tape |-> arg[1].tape, pos |-> 1], key[1], key[2])>>
    /\ UNCHANGED <<SEED_SECRET, sessions, pending, rendered, sent, nupdates, arg>>

ScoreInit == BotInit /\ arg \in {<<a>> : a \in ScoreArgs} /\ ret = None

SpecScore == ScoreInit /\ [][call_match_of]_vars

ContentArgs == {[score |-> sc, seed |-> sd] : sc \in 1..100, sd \in 0..MaxSeed}

\* the tier chain and the three _pick calls for arg's score
call_result_of ==
    /\ ret = None
    /\ ret' = <<result_of(Random(arg[1].seed), arg[1].score)>>
    /\ UNCHANGED <<SEED_SECRET, sessions, pending, rendered, sent, nupdates, arg>>

ContentInit == BotInit /\ arg \in {<<a>> : a \in ContentArgs} /\ ret = None

SpecContent == ContentInit /\ [][call_result_of]_vars

\* ------------------------------------------------------------------ claims
Creates == {"match", "ship"}

\* the step sent a result: the entry it appended
Rendering == Len(rendered') = Len(rendered) + 1
NewEntry == rendered'[Len(rendered')]

\* indices of the results of op kind `ops` under token t
EntriesOf(t, ops) == {i \in 1..Len(rendered) : rendered[i].token = t /\ rendered[i].op \in ops}

\* C1: two results computed with the same secret, the same nonce and the same
\* two names, in either order, are equal in every field, whatever handlers ran
\* between the two computations.
C1_ScoreSymmetricDeterministic ==
    \A i, j \in 1..Len(rendered) :
        LET e == rendered[i]
            f == rendered[j]
        IN  ( /\ e.secret = f.secret
              /\ e.nonce = f.nonce
              /\ \/ (e.name1 = f.name1 /\ e.name2 = f.name2)
                 \/ (e.name1 = f.name2 /\ e.name2 = f.name1) )
            => e.r = f.r

\* two distinct names were scored in both orders, with another result between
C1_Witness ==
    \E i, j \in 1..Len(rendered) :
        /\ i + 1 < j
        /\ rendered[i].name1 = rendered[j].name2
        /\ rendered[i].name2 = rendered[j].name1
        /\ rendered[i].name1 # rendered[i].name2
        /\ rendered[i].secret = rendered[j].secret
        /\ rendered[i].nonce = rendered[j].nonce
        /\ rendered[i].r = rendered[j].r

\* C2: the score of every result is an integer from 1 to 100, for every base
\* draw, similarity bonus, vowel adjustment and combination of the two
\* optional perturbations.
C2_ScoreInRange ==
    ret # None => (ret[1].score \in Int /\ ret[1].score >= 1 /\ ret[1].score <= 100)

\* base 92, full overlap, equal vowel ratios and the +7 draw: 112 before the clamp
C2_Witness ==
    /\ ret # None
    /\ ret[1].score = 100
    /\ arg[1].name1 = Letters(MaxDistinct)
    /\ SubSeq(arg[1].tape, 1, 4) = <<57, 11, 5, 10>>

\* C3: a session is created with nonce 0, a successful reroll of its token
\* changes the stored nonce from n to n + 1, and no step lowers the nonce
\* stored under a token.
C3_NonceLifecycle ==
    [][ /\ \A t \in DOMAIN sessions' \ DOMAIN sessions : sessions'[t].nonce = 0
        /\ (Rendering /\ NewEntry.op \in Creates) => sessions'[NewEntry.token].nonce = 0
        /\ (Rendering /\ NewEntry.op = "reroll") =>
               /\ NewEntry.token \in DOMAIN sessions
               /\ sessions'[NewEntry.token].nonce = sessions[NewEntry.token].nonce + 1
        /\ \A t \in DOMAIN sessions :
               t \in DOMAIN sessions' /\ sessions'[t].nonce >= sessions[t].nonce ]_vars

\* C4: every result sent equals compute_match of the secret, the session's two
\* names and the session's nonce as they are stored after the step.
C4_RenderedFromStoredState ==
    [][ Rendering =>
          LET e == NewEntry
          IN  /\ e.token \in DOMAIN sessions'
              /\ e.name1 = sessions'[e.token].name1
              /\ e.name2 = sessions'[e.token].name2
              /\ e.r = compute_match(SEED_SECRET', sessions'[e.token].name1,
                                     sessions'[e.token].name2, sessions'[e.token].nonce) ]_vars

\* a session created under the default secret was rerolled after /setsecret
C4_Witness ==
    \E i, j \in 1..Len(rendered) :
        /\ i < j
        /\ rendered[i].op \in Creates
        /\ rendered[i].secret = DefaultSecret
        /\ rendered[j].op = "reroll"
        /\ rendered[j].token = rendered[i].token
        /\ rendered[j].secret # DefaultSecret
        /\ rendered[j].secret = SEED_SECRET
        /\ rendered[j].nonce = 1
        /\ sessions[rendered[j].token].nonce = 1

C6_NoTokenCollision ==
    [][ (Rendering /\ NewEntry.op \in Creates) => NewEntry.token \notin DOMAIN sessions ]_vars

\* the tier table as the claim gives it
ClaimedLabel(score) ==
    IF score >= 90 THEN "Soulmate Mode"
    ELSE IF score >= 75 THEN "Green Flag Couple"
    ELSE IF score >= 60 THEN "Potential / needs effort"
    ELSE IF score >= 45 THEN "50:50"
    ELSE "Caution"

\* the same thresholds with the label and vibe strings of the source
SourceLabel(score) ==
    IF score >= 90 THEN "Soulmate Mode"
    ELSE IF score >= 75 THEN "Green Flag Couple"
    ELSE IF score >= 60 THEN "Potential (butuh effort)"
    ELSE IF score >= 45 THEN "50:50"
    ELSE "Hati-hati"

SourceVibe(label) ==
    CASE label = "Soulmate Mode" -> "Kalian kalau chat, universe ikut ngetik."
      [] label = "Green Flag Couple" -> "Nyambungnya enak, asal komunikasi jalan."
      [] label = "Potential (butuh effort)" -> "Chemistry ada, tinggal konsistenin usaha."
      [] label = "50:50" -> "Bisa jadi, bisa bubar. Jangan mager komunikasi."
      [] OTHER -> "Bukan nggak bisa, cuma rawan salah paham."

\* C7 as stated: the label of a result is the one the claim names for its score.
C7_TierLabelsAsClaimed ==
    ret # None => ret[1].label = ClaimedLabel(arg[1].score)

\* C7: the tier is decided by the score with inclusive lower bounds 90, 75, 60
\* and 45; the labels are "Soulmate Mode", "Green Flag Couple",
\* "Potential (butuh effort)", "50:50" and "Hati-hati", each with one fixed vibe.
C7_TierBySource ==
    ret # None =>
        /\ ret[1].score = arg[1].score
        /\ ret[1].label = SourceLabel(arg[1].score)
        /\ ret[1].vibe = SourceVibe(ret[1].label)

\* the lowest score of the top tier
C7_Witness ==
    /\ ret # None
    /\ arg[1].score = 90
    /\ ret[1].label = "Soulmate Mode"

IsSample(list, pool) ==
    /\ \A i, j \in 1..Len(list) : i # j => list[i] # list[j]
    /\ \A i \in 1..Len(list) : list[i] \in Range(pool)

\* C8: reasons has 3 entries if score >= 70 else 2, greens 3 if score >= 75
\* else 2, reds 2 if score >= 60 else 3, and the entries of each list are
\* pairwise distinct members of its pool.
C8_ContentLists ==
    ret # None =>
        LET r  == ret[1]
            sc == arg[1].score
        IN  /\ Len(r.reasons) = (IF sc >= 70 THEN 3 ELSE 2)
            /\ Len(r.greens) = (IF sc >= 75 THEN 3 ELSE 2)
            /\ Len(r.reds) = (IF sc >= 60 THEN 2 ELSE 3)
            /\ IsSample(r.reasons, reason_pool)
            /\ IsSample(r.greens, green_pool)
            /\ IsSample(r.reds, red_pool)

\* score 95: three reasons, three greens, two reds
C8_Witness ==
    /\ ret # None
    /\ arg[1].score = 95
    /\ Len(ret[1].reasons) = 3
    /\ Len(ret[1].greens) = 3
    /\ Len(ret[1].reds) = 2

\* the first result sent under token t: the create that issued it
FirstCreate(t) == rendered[CHOOSE i \in EntriesOf(t, Creates) : \A j \in EntriesOf(t, Creates) : i <= j]

\* C9: sessions are never removed; a reroll of an issued token succeeds and
\* scores the two names the token was issued with; and it changes the nonce of
\* its own session and nothing else in sessions.
C9_SessionsKeepIdentity ==
    [][ /\ DOMAIN sessions \subseteq DOMAIN sessions'
        /\ \A i \in Slots :
             ( /\ pending[i] # None
               /\ pending'[i] = None
               /\ reroll_token(pending[i]) \in DOMAIN sessions )
             => ( /\ sent' = "result"
                  /\ Rendering
                  /\ NewEntry.op = "reroll"
                  /\ NewEntry.token = reroll_token(pending[i]) )
        /\ (Rendering /\ NewEntry.op = "reroll") =>
             LET t == NewEntry.token
             IN  /\ NewEntry.name1 = FirstCreate(t).name1
                 /\ NewEntry.name2 = FirstCreate(t).name2
                 /\ sessions' = [sessions EXCEPT ![t].nonce = @ + 1] ]_vars

\* C10: the rerolls completed for a token number exactly its stored nonce, and
\* no two of them scored with the same nonce.
C10_NoLostUpdate ==
    \A t \in DOMAIN sessions :
        /\ sessions[t].nonce = Cardinality(EntriesOf(t, {"reroll"}))
        /\ \A i, j \in EntriesOf(t, {"reroll"}) : i # j => rendered[i].nonce # rendered[j].nonce

====
